---- MODULE Spec2Model ----
(***************************************************************************)
(* A model of the Leather Drafts geometry core:                            *)
(*   - the line-oriented DSL parser           (engine/dsl/dsl_parser.py)   *)
(*   - the expression evaluator               (engine/geometry/eval.py)    *)
(*   - the parametric block interpreter       (engine/cli/main.py, draft)  *)
(*   - the cubic Bezier flattener             (engine/geometry/flatten.py) *)
(*   - the outline builder, the DXF exporter's vertex list, the offset     *)
(*     engine and the construct step (flatten.py, dxf_exporter.py,         *)
(*     seam_allowance.py, engine/cli/main.py)                              *)
(* Each component has its own variables and its own specification; the     *)
(* variables of the components a specification does not run stay idle.     *)
(*                                                                         *)
(* Strings are sequences of one-character strings, so that strip, split    *)
(* and startswith are computed and not assumed.  Numbers are exact         *)
(* rationals <<n, d>> with d > 0 in lowest terms.                          *)
(***************************************************************************)
EXTENDS Integers, Sequences, FiniteSets, TLC

VARIABLES
    \* parse_dsl
    text,        \* the lines of the input consumed so far
    pieces,      \* the list `pieces`
    current,     \* index in `pieces` of the open piece, 0 for None
    status,      \* "parsing", "returned" or "error" (an exception left parse_dsl)
    \* eval_expr
    expr,        \* the parsed expression (ast.parse(expr, mode="eval").body)
    result,      \* Pending, then what eval_expr returned, or Err when it raised
    \* draft(..., block=...)
    blockParams, \* block_data["params"]: the ordered top-level declarations
    env,         \* the dict `env`
    penv,        \* the dict `penv` of the piece being interpreted
    piece,       \* the element `p` of block_data["pieces"] being interpreted
    pieces_out,  \* the list `pieces_out`
    phase,       \* "top", "pieces", "piece", "written" or "failed" (draft raised)
    next,        \* index of the next parameter declaration of the running loop
    count,       \* how many elements of block_data["pieces"] were taken so far
    locals,      \* history: the names bound piece-locally by the pieces completed
    written,     \* the payload written to `out`, NoOutput before the write
    \* flatten_cubic
    curve,       \* the arguments <<p0, p1, p2, p3>>
    tol,         \* the argument tol
    out,         \* the list flatten_cubic returned, <<>> before the call
    coarse,      \* the list an earlier call returned for a tolerance >= tol
    fpc,         \* "ready", "done" (called once), "refined" (called again) or
                 \* "running" (the call has not returned)
    \* piece_paths_to_polyline, export_dxf, offset_piece, construct
    pdict,       \* the piece dict `piece` (`p` in construct)
    ptol,        \* the tolerance handed to the builder and the exporter
    verts,       \* the list piece_paths_to_polyline returned
    dverts,      \* the list `verts` export_dxf handed to add_poly
    prim,        \* history: the call of the pyclipper offset, NotInvoked if none
    sa_poly,     \* the list offset_piece returned
    ppc          \* "ready", then "built", "exported", "offset" or "constructed"

parseVars == <<text, pieces, current, status>>
evalVars  == <<expr, result>>
draftVars == <<blockParams, env, penv, piece, pieces_out, phase, next, count, locals, written>>

flatVars  == <<curve, tol, out, coarse, fpc>>
outlVars  == <<pdict, ptol, verts, dverts, prim, sa_poly, ppc>>

vars == <<parseVars, evalVars, draftVars, flatVars, outlVars>>

-----------------------------------------------------------------------------
(* Bounds                                                                  *)

MaxLines == 3

-----------------------------------------------------------------------------
(* Strings as character sequences                                          *)

Digits == <<"0", "1", "2", "3", "4", "5", "6", "7", "8", "9">>

IsDigit(c) == \E i \in 1..10 : Digits[i] = c

DigitVal(c) == (CHOOSE i \in 1..10 : Digits[i] = c) - 1

StartsWith(s, p) == Len(s) >= Len(p) /\ SubSeq(s, 1, Len(p)) = p

RECURSIVE LStrip(_)
LStrip(s) == IF s # <<>> /\ Head(s) = " " THEN LStrip(Tail(s)) ELSE s

RECURSIVE RStrip(_)
RStrip(s) ==
    IF s # <<>> /\ s[Len(s)] = " " THEN RStrip(SubSeq(s, 1, Len(s) - 1)) ELSE s

\* str.strip(): the model's only whitespace character is the space
Strip(s) == RStrip(LStrip(s))

\* str.rstrip(chars) for a single character
RECURSIVE RStripChar(_, _)
RStripChar(s, c) ==
    IF s # <<>> /\ s[Len(s)] = c THEN RStripChar(SubSeq(s, 1, Len(s) - 1), c) ELSE s

\* str.find(sep): index of the first occurrence of sep in s, 0 when absent
Find(s, sep) ==
    LET hits == {i \in 1..(Len(s) - Len(sep) + 1) : SubSeq(s, i, i + Len(sep) - 1) = sep}
    IN  IF hits = {} THEN 0 ELSE CHOOSE i \in hits : \A j \in hits : i <= j

\* str.split(sep): every part
RECURSIVE Split(_, _)
Split(s, sep) ==
    LET i == Find(s, sep)
    IN  IF i = 0 THEN <<s>>
        ELSE <<SubSeq(s, 1, i - 1)>> \o Split(SubSeq(s, i + Len(sep), Len(s)), sep)

\* str.split(sep, 1): at most two parts
Split1(s, sep) ==
    LET i == Find(s, sep)
    IN  IF i = 0 THEN <<s>>
        ELSE <<SubSeq(s, 1, i - 1), SubSeq(s, i + Len(sep), Len(s))>>

-----------------------------------------------------------------------------
(* Exact rationals                                                         *)

Abs(n) == IF n < 0 THEN -n ELSE n

RECURSIVE Gcd(_, _)
Gcd(a, b) == IF b = 0 THEN a ELSE Gcd(b, a % b)

\* the rational n/d (d # 0) in lowest terms with a positive denominator
Rat(n, d) ==
    LET g == Gcd(Abs(n), Abs(d))
        s == IF d < 0 THEN -1 ELSE 1
    IN  <<(s * n) \div g, (s * d) \div g>>

RECURSIVE Pow10(_)
Pow10(k) == IF k = 0 THEN 1 ELSE 10 * Pow10(k - 1)

RECURSIVE DigitsVal(_)
DigitsVal(s) == IF s = <<>> THEN 0 ELSE 10 * DigitsVal(SubSeq(s, 1, Len(s) - 1)) + DigitVal(s[Len(s)])

AllDigits(s) == \A i \in 1..Len(s) : IsDigit(s[i])

\* float(s) for a string: the decimal forms [+-]digits[.digits] with at least
\* one digit, surrounded by optional whitespace.  NoFloat when float() raises
\* ValueError.  (The exponent, inf/nan and underscore forms use characters
\* outside the model's alphabet.)
NoFloat == <<>>

Unsigned(s) == IF s # <<>> /\ Head(s) \in {"-", "+"} THEN Tail(s) ELSE s

Negate(q) == IF q = NoFloat THEN NoFloat ELSE <<-q[1], q[2]>>

Decimal(ip, fp) ==
    IF AllDigits(ip) /\ AllDigits(fp) /\ Len(ip) + Len(fp) > 0
    THEN Rat(DigitsVal(ip \o fp), Pow10(Len(fp)))
    ELSE NoFloat

ParseDecimal(parts) == Decimal(parts[1], IF Len(parts) = 2 THEN parts[2] ELSE <<>>)

ParseSigned(s) ==
    IF s # <<>> /\ Head(s) = "-"
    THEN Negate(ParseDecimal(Split1(Unsigned(s), <<".">>)))
    ELSE ParseDecimal(Split1(Unsigned(s), <<".">>))

ParseFloat(str) == ParseSigned(Strip(str))

-----------------------------------------------------------------------------
(* The DSL parser: parse_dsl                                               *)

\* "x,y" -> <<x, y>>: x,y = map(float, s.split(",")); NoPoint when the
\* unpacking or a float() raises
NoPoint == <<>>

FloatPair(x, y) == IF x = NoFloat \/ y = NoFloat THEN NoPoint ELSE <<x, y>>

PointOf(parts) ==
    IF Len(parts) = 2 THEN FloatPair(ParseFloat(parts[1]), ParseFloat(parts[2])) ELSE NoPoint

ParsePoint(s) == PointOf(Split(s, <<",">>))

\* [seg.strip() for seg in body.split("->")] parsed as n points; <<>> when the
\* unpacking or a float() raises
PointsOf(pts, n) ==
    IF Len(pts) = n /\ \A i \in 1..n : pts[i] # NoPoint THEN pts ELSE <<>>

SegPoints(segs) == [i \in 1..Len(segs) |-> ParsePoint(Strip(segs[i]))]

ParsePoints(body, n) == PointsOf(SegPoints(Split(body, <<"-", ">">>)), n)

PathCmd(type, data, raw) == [type |-> type, data |-> data, raw |-> raw]

Piece(name) ==
    [name |-> name, paths |-> <<>>, notches |-> <<>>, drills |-> <<>>,
     grain |-> <<>>, seam_allowance |-> <<>>]

KwPIECE == <<"P", "I", "E", "C", "E", " ">>
KwEND   == <<"E", "N", "D">>
KwMOVE  == <<"M", "O", "V", "E", " ">>
KwLINE  == <<"L", "I", "N", "E", " ">>
KwCURVE == <<"C", "U", "R", "V", "E", " ">>
KwARC   == <<"A", "R", "C", " ">>
KwCLOSE == <<"C", "L", "O", "S", "E">>
KwNOTCH == <<"N", "O", "T", "C", "H", " ">>
KwDRILL == <<"D", "R", "I", "L", "L", " ">>
KwGRAIN == <<"G", "R", "A", "I", "N", " ">>
KwSA    == <<"S", "A", " ">>

\* line.split(" ", 1)[1]
Rest(line) == Split1(line, <<" ">>)[2]

\* coords, label = line[6:].split('"', 1) and the tuple NOTCH and DRILL
\* append, as a one-element list; <<>> when the unpacking or a float() raises
MarkOf(pt, label) ==
    IF pt = NoPoint THEN <<>>
    ELSE <<[x |-> pt[1], y |-> pt[2], label |-> Strip(RStripChar(label, "\""))]>>

MarkParts(parts) ==
    IF Len(parts) = 2 THEN MarkOf(ParsePoint(Strip(parts[1])), parts[2]) ELSE <<>>

ParseMark(line) == MarkParts(Split1(SubSeq(line, 7, Len(line)), <<"\"">>))

ParseError == [error |-> TRUE]

AddPath(p, pt, type) ==
    IF pt = NoPoint THEN ParseError
    ELSE [p EXCEPT !.paths = Append(@, PathCmd(type, <<pt>>, <<>>))]

AddCurve(p, pts) ==
    IF pts = <<>> THEN ParseError
    ELSE [p EXCEPT !.paths = Append(@, PathCmd("CURVE", pts, <<>>))]

AddNotch(p, m) == IF m = <<>> THEN ParseError ELSE [p EXCEPT !.notches = @ \o m]

AddDrill(p, m) == IF m = <<>> THEN ParseError ELSE [p EXCEPT !.drills = @ \o m]

SetGrain(p, pts) == IF pts = <<>> THEN ParseError ELSE [p EXCEPT !.grain = pts]

SetSA(p, v) == IF v = NoFloat THEN ParseError ELSE [p EXCEPT !.seam_allowance = v]

\* The if/elif chain of parse_dsl applied to a stripped command line inside
\* the open piece p: the updated piece, or ParseError when the chain raises.
Command(line, p) ==
    IF StartsWith(line, KwMOVE) THEN AddPath(p, ParsePoint(Rest(line)), "MOVE")
    ELSE IF StartsWith(line, KwLINE) THEN AddPath(p, ParsePoint(Rest(line)), "LINE")
    ELSE IF StartsWith(line, KwCURVE) THEN AddCurve(p, ParsePoints(Rest(line), 3))
    ELSE IF StartsWith(line, KwARC) THEN
        [p EXCEPT !.paths = Append(@, PathCmd("ARC", <<>>, line))]
    ELSE IF StartsWith(line, KwCLOSE) THEN
        [p EXCEPT !.paths = Append(@, PathCmd("CLOSE", <<>>, <<>>))]
    ELSE IF StartsWith(line, KwNOTCH) THEN AddNotch(p, ParseMark(line))
    ELSE IF StartsWith(line, KwDRILL) THEN AddDrill(p, ParseMark(line))
    ELSE IF StartsWith(line, KwGRAIN) THEN SetGrain(p, ParsePoints(Rest(line), 2))
    ELSE IF StartsWith(line, KwSA) THEN SetSA(p, ParseFloat(Rest(line)))
    ELSE ParseError

IsBlankOrComment(line) == line = <<>> \/ Head(line) = "#"

\* The input lines the parser is fed: every command in a well-formed form,
\* malformed forms, keyword look-alikes, blank and comment lines.
LnBlank    == <<>>
LnSpaces   == <<" ", " ">>
LnComment  == <<"#", " ", "c">>
LnPieceA   == <<"P", "I", "E", "C", "E", " ", "a">>
LnPieceB   == <<"P", "I", "E", "C", "E", " ", "b">>
LnPieceBare == <<"P", "I", "E", "C", "E">>
LnEnd      == <<"E", "N", "D">>
LnEndPad   == <<" ", "E", "N", "D", " ">>
LnEndX     == <<"E", "N", "D", "X">>
LnMove     == <<"M", "O", "V", "E", " ", "0", ",", "0">>
LnMoveBad  == <<"M", "O", "V", "E", " ", "x", ",", "0">>
LnMoveX    == <<"M", "O", "V", "E", "X">>
LnLine     == <<"L", "I", "N", "E", " ", "1", ".", "5", ",", " ", "2">>
LnCurve    == <<"C", "U", "R", "V", "E", " ", "0", ",", "1", " ", "-", ">", " ", "1", ",", "1",
                " ", "-", ">", " ", "1", ",", "0">>
LnArc      == <<"A", "R", "C", " ", "1", ",", "1">>
LnClose    == <<"C", "L", "O", "S", "E">>
LnCloseX   == <<"C", "L", "O", "S", "E", "X">>
LnNotch    == <<"N", "O", "T", "C", "H", " ", "1", ",", "2", " ", "\"", "n", "\"">>
LnDrillBad == <<"D", "R", "I", "L", "L", " ", "1", ",", "2">>
LnGrain    == <<"G", "R", "A", "I", "N", " ", "0", ",", "0", " ", "-", ">", " ", "0", ",", "1">>
LnSA       == <<"S", "A", " ", "8">>
LnFoo      == <<"F", "O", "O">>

DslLines ==
    { LnBlank, LnSpaces, LnComment, LnPieceA, LnPieceB, LnPieceBare, LnEnd, LnEndPad,
      LnEndX, LnMove, LnMoveBad, LnMoveX, LnLine, LnCurve, LnArc, LnClose, LnCloseX,
      LnNotch, LnDrillBad, LnGrain, LnSA, LnFoo }

ParseStart ==
    /\ text = <<>>
    /\ pieces = <<>>
    /\ current = 0
    /\ status = "parsing"

\* parse_dsl is not running
ParseIdle ==
    /\ text = <<>>
    /\ pieces = <<>>
    /\ current = 0
    /\ status = "idle"

\* The body of `for raw in text.splitlines()` on the stripped line.
Dispatch(line) ==
    IF IsBlankOrComment(line) THEN
        UNCHANGED <<pieces, current, status>>
    ELSE IF StartsWith(line, KwPIECE) THEN
        /\ pieces' = Append(pieces, Piece(Strip(Rest(line))))
        /\ current' = Len(pieces) + 1
        /\ UNCHANGED status
    ELSE IF line = KwEND THEN
        /\ current' = 0
        /\ UNCHANGED <<pieces, status>>
    ELSE IF current = 0 THEN
        /\ status' = "error"
        /\ UNCHANGED <<pieces, current>>
    ELSE IF Command(line, pieces[current]) = ParseError THEN
        /\ status' = "error"
        /\ UNCHANGED <<pieces, current>>
    ELSE
        /\ pieces' = [pieces EXCEPT ![current] = Command(line, pieces[current])]
        /\ UNCHANGED <<current, status>>

\* One iteration of `for raw in text.splitlines()` on the next line raw.
ParseLine(raw) ==
    /\ status = "parsing"
    /\ Len(text) < MaxLines
    /\ text' = Append(text, raw)
    /\ Dispatch(Strip(raw))
    /\ UNCHANGED <<evalVars, draftVars, flatVars, outlVars>>

\* The loop runs out of lines: `return pieces`.
ParseReturn ==
    /\ status = "parsing"
    /\ status' = "returned"
    /\ UNCHANGED <<text, pieces, current>>
    /\ UNCHANGED <<evalVars, draftVars, flatVars, outlVars>>

ParseNext == (\E raw \in DslLines : ParseLine(raw)) \/ ParseReturn

-----------------------------------------------------------------------------
(* Values of the evaluator.  A number carries its Python type (int, bool,  *)
(* float) and its exact value q; every exception is the one value Err.     *)

IntV(n)   == [t |-> "int", q |-> <<n, 1>>]
FloatV(q) == [t |-> "float", q |-> q]
BoolV(b)  == [t |-> "bool", q |-> <<IF b THEN 1 ELSE 0, 1>>]
StrV(s)   == [t |-> "str", s |-> s]
NoneV     == [t |-> "none"]
MapV(m)   == [t |-> "map", m |-> m]
FuncV(f)  == [t |-> "func", f |-> f]
Err       == [t |-> "err"]

IsNum(v) == v.t \in {"int", "bool", "float"}
IsIntLike(v) == v.t \in {"int", "bool"}

RAdd(a, b) == Rat(a[1] * b[2] + b[1] * a[2], a[2] * b[2])
RSub(a, b) == Rat(a[1] * b[2] - b[1] * a[2], a[2] * b[2])
RMul(a, b) == Rat(a[1] * b[1], a[2] * b[2])
RDiv(a, b) == Rat(a[1] * b[2], a[2] * b[1])
RLess(a, b) == a[1] * b[2] < b[1] * a[2]

RECURSIVE RPow(_, _)
RPow(a, k) == IF k = 0 THEN <<1, 1>> ELSE RMul(a, RPow(a, k - 1))

\* the integer nearest to n/d, ties to the even one (Python's round)
HalfEven(fl, rem2, d) ==
    IF rem2 < d THEN fl
    ELSE IF rem2 > d THEN fl + 1
    ELSE IF fl % 2 = 0 THEN fl ELSE fl + 1

RoundInt(q) == HalfEven(q[1] \div q[2], 2 * (q[1] % q[2]), q[2])

\* round(x, k) on an exact value: to k decimals for k >= 0, to a multiple of
\* 10^-k for k < 0.  (Python rounds the double nearest to x; the two agree
\* unless x * 10^k is an exact tie that the double is not.)
RoundTo(q, k) ==
    IF k >= 0 THEN Rat(RoundInt(RMul(q, <<Pow10(k), 1>>)), Pow10(k))
    ELSE <<RoundInt(RMul(q, <<1, Pow10(-k)>>)) * Pow10(-k), 1>>

\* the result type of +, -, * and ** with a non-negative exponent
Arith(a, b, q) == IF IsIntLike(a) /\ IsIntLike(b) THEN IntV(q[1]) ELSE FloatV(q)

\* a ** b for numbers whose exponent has an integer value
PowV(a, b) ==
    IF b.q[1] >= 0 THEN Arith(a, b, RPow(a.q, b.q[1]))
    ELSE IF a.q[1] = 0 THEN Err
    ELSE FloatV(RPow(RDiv(<<1, 1>>, a.q), -b.q[1]))

NumOp(op, a, b) ==
    CASE op = "Add"  -> Arith(a, b, RAdd(a.q, b.q))
      [] op = "Sub"  -> Arith(a, b, RSub(a.q, b.q))
      [] op = "Mult" -> Arith(a, b, RMul(a.q, b.q))
      [] op = "Div"  -> IF b.q[1] = 0 THEN Err ELSE FloatV(RDiv(a.q, b.q))
      [] op = "Pow" /\ b.q[2] = 1 -> PowV(a, b)

RECURSIVE Repeat(_, _)
Repeat(s, n) == IF n <= 0 THEN <<>> ELSE s \o Repeat(s, n - 1)

\* OPS: the operators of ast.BinOp the evaluator knows
OPS == {"Add", "Sub", "Mult", "Div", "Pow"}

\* OPS[type(node.op)](left, right) on evaluated operands
BinOpV(op, a, b) ==
    IF op \notin OPS \/ a = Err \/ b = Err THEN Err
    ELSE IF IsNum(a) /\ IsNum(b) THEN NumOp(op, a, b)
    ELSE IF op = "Add" /\ a.t = "str" /\ b.t = "str" THEN StrV(a.s \o b.s)
    ELSE IF op = "Mult" /\ a.t = "str" /\ IsIntLike(b) THEN StrV(Repeat(a.s, b.q[1]))
    ELSE IF op = "Mult" /\ IsIntLike(a) /\ b.t = "str" THEN StrV(Repeat(b.s, a.q[1]))
    ELSE Err

\* OPS[type(node.op)](operand): only USub is in OPS
UnaryOpV(op, a) ==
    IF op # "USub" \/ a = Err THEN Err
    ELSE IF IsIntLike(a) THEN IntV(-a.q[1])
    ELSE IF a.t = "float" THEN FloatV(<<-a.q[1], a.q[2]>>)
    ELSE Err

\* the characters of the model in code-point order, for str comparison
Ascii ==
    <<" ", "\"", "#", "+", ",", "-", ".", "0", "1", "2", "3", "4", "5", "6", "7", "8",
      "9", ">", "A", "B", "C", "D", "E", "F", "G", "H", "I", "L", "M", "N", "O", "P", "R",
      "S", "T", "U", "V", "W", "X", "Z", "_", "a", "b", "c", "d", "e", "h", "l", "m", "n", "o",
      "s", "t", "w", "x">>

Ord(c) == CHOOSE i \in 1..Len(Ascii) : Ascii[i] = c

RECURSIVE StrLess(_, _)
StrLess(a, b) ==
    IF b = <<>> THEN FALSE
    ELSE IF a = <<>> THEN TRUE
    ELSE IF Head(a) # Head(b) THEN Ord(Head(a)) < Ord(Head(b))
    ELSE StrLess(Tail(a), Tail(b))

\* a < b as Python compares two values of the same family
Less(a, b) == IF a.t = "str" THEN StrLess(a.s, b.s) ELSE RLess(a.q, b.q)

Comparable(vs) ==
    \/ \A i \in 1..Len(vs) : IsNum(vs[i])
    \/ \A i \in 1..Len(vs) : vs[i].t = "str"

\* min(*vs) and max(*vs): the first of the smallest (largest) elements
MinOf(vs) ==
    vs[CHOOSE i \in 1..Len(vs) :
          /\ \A j \in 1..Len(vs) : ~Less(vs[j], vs[i])
          /\ \A j \in 1..(i - 1) : Less(vs[i], vs[j])]

MaxOf(vs) ==
    vs[CHOOSE i \in 1..Len(vs) :
          /\ \A j \in 1..Len(vs) : ~Less(vs[i], vs[j])
          /\ \A j \in 1..(i - 1) : Less(vs[j], vs[i])]

\* iterating a value passed alone to min/max: the characters of a str, the
\* keys of a mapping; <<>> when it is empty or cannot be iterated
SetToSeq(S) == CHOOSE f \in [1..Cardinality(S) -> S] : \A x \in S : \E i \in DOMAIN f : f[i] = x

\* the characters of the keys the model's mappings use
KeyChars(key) ==
    CASE key = "chest" -> <<"c", "h", "e", "s", "t">>
      [] key = "ease" -> <<"e", "a", "s", "e">>
      [] key = "hem_allowance" ->
            <<"h", "e", "m", "_", "a", "l", "l", "o", "w", "a", "n", "c", "e">>

Items(v) ==
    IF v.t = "str" THEN [i \in 1..Len(v.s) |-> StrV(<<v.s[i]>>)]
    ELSE IF v.t = "map" THEN SetToSeq({StrV(KeyChars(key)) : key \in DOMAIN v.m})
    ELSE <<>>

Extreme(f, vs) ==
    IF vs = <<>> \/ ~Comparable(vs) THEN Err
    ELSE IF f = "min" THEN MinOf(vs) ELSE MaxOf(vs)

AbsV(a) ==
    IF IsIntLike(a) THEN IntV(Abs(a.q[1]))
    ELSE IF a.t = "float" THEN FloatV(<<Abs(a.q[1]), a.q[2]>>)
    ELSE Err

\* round(a) returns an int; round(a, k) keeps the type of a
Round1(a) == IF IsNum(a) THEN IntV(RoundInt(a.q)) ELSE Err

Round2(a, k) ==
    IF k = NoneV THEN Round1(a)
    ELSE IF ~IsNum(a) \/ ~IsIntLike(k) THEN Err
    ELSE IF IsIntLike(a) THEN IntV(RoundTo(a.q, k.q[1])[1])
    ELSE FloatV(RoundTo(a.q, k.q[1]))

\* ALLOWED: the callable names
ALLOWED == {"abs", "min", "max", "round"}

\* func(*args) for an evaluated callee and evaluated arguments
CallV(func, args) ==
    IF func.t # "func" \/ \E i \in 1..Len(args) : args[i] = Err THEN Err
    ELSE IF func.f = "abs" THEN (IF Len(args) = 1 THEN AbsV(args[1]) ELSE Err)
    ELSE IF func.f = "round" THEN
        (IF Len(args) = 1 THEN Round1(args[1])
         ELSE IF Len(args) = 2 THEN Round2(args[1], args[2])
         ELSE Err)
    ELSE IF Len(args) = 1 THEN Extreme(func.f, Items(args[1]))
    ELSE Extreme(func.f, args)

\* base[node.attr]
AttrV(base, attr) ==
    IF base.t = "map" /\ attr \in DOMAIN base.m THEN base.m[attr] ELSE Err

NameV(id, e) ==
    IF id \in DOMAIN e THEN e[id]
    ELSE IF id \in ALLOWED THEN FuncV(id)
    ELSE Err

\* Expression trees, as ast.parse builds them
Constant(v)        == [k |-> "Constant", value |-> v]
BinOp(op, l, r)    == [k |-> "BinOp", op |-> op, left |-> l, right |-> r]
UnaryOp(op, e)     == [k |-> "UnaryOp", op |-> op, operand |-> e]
Name(id)           == [k |-> "Name", id |-> id]
Keyword(arg, v)    == [arg |-> arg, value |-> v]
CallKw(f, args, kws) == [k |-> "Call", func |-> f, args |-> args, keywords |-> kws]
Call(f, args)      == CallKw(f, args, <<>>)
Attribute(e, attr) == [k |-> "Attribute", value |-> e, attr |-> attr]
OtherNode          == [k |-> "IfExp"]

\* _eval(node, env)
RECURSIVE Eval(_, _)
Eval(node, e) ==
    CASE node.k = "Constant"  -> node.value
      [] node.k = "BinOp"     -> BinOpV(node.op, Eval(node.left, e), Eval(node.right, e))
      [] node.k = "UnaryOp"   -> UnaryOpV(node.op, Eval(node.operand, e))
      [] node.k = "Name"      -> NameV(node.id, e)
      [] node.k = "Call"      ->   \* node.keywords is never read
            CallV(Eval(node.func, e), [i \in 1..Len(node.args) |-> Eval(node.args[i], e)])
      [] node.k = "Attribute" -> AttrV(Eval(node.value, e), node.attr)
      [] OTHER                -> Err

FloatOfStr(q) == IF q = NoFloat THEN Err ELSE FloatV(q)

\* float(v)
ToFloat(v) ==
    IF IsNum(v) THEN FloatV(v.q)
    ELSE IF v.t = "str" THEN FloatOfStr(ParseFloat(v.s))
    ELSE Err

\* eval_expr(expr, env) on the parsed expression
EvalExpr(node, e) == ToFloat(Eval(node, e))

\* The environment eval_expr is tried in: a measurement mapping as json.loads
\* builds it and a derived parameter (a float).
EvalEnv == [M |-> MapV([chest |-> IntV(100)]), W |-> FloatV(<<2, 1>>)]

\* The expressions eval_expr is tried on: constants of every kind, names
\* (bound, unbound, callable), and one operator, call or attribute access
\* over them.
EvalAtoms ==
    { Constant(IntV(2)), Constant(IntV(0)), Constant(StrV(<<"3">>)),
      Constant(StrV(<<"1", ".", "5">>)), Constant(StrV(<<"a", "b">>)),
      Constant(BoolV(TRUE)), Constant(NoneV),
      Name("W"), Name("M"), Name("Z"), Name("abs") }

EvalExprs ==
    EvalAtoms
    \cup {OtherNode}
    \cup {Attribute(a, attr) : a \in {Name("M"), Name("W"), Name("Z")}, attr \in {"chest", "hip"}}
    \cup {UnaryOp(op, a) : op \in {"USub", "UAdd"}, a \in EvalAtoms}
    \cup {BinOp(op, a, b) : op \in OPS \cup {"Mod"}, a \in EvalAtoms, b \in EvalAtoms}
    \cup {Call(Name(f), <<a>>) : f \in ALLOWED \cup {"W"}, a \in EvalAtoms}
    \cup {Call(Name(f), <<a, b>>) : f \in ALLOWED, a \in EvalAtoms, b \in EvalAtoms}

Pending == [t |-> "pending"]

EvalStart ==
    /\ expr \in EvalExprs
    /\ result = Pending

\* eval_expr is not running
EvalIdle ==
    /\ expr = OtherNode
    /\ result = [t |-> "idle"]

\* eval_expr(expr, env)
Evaluate ==
    /\ result = Pending
    /\ result' = EvalExpr(expr, EvalEnv)
    /\ UNCHANGED <<expr, parseVars, draftVars, flatVars, outlVars>>

EvalNext == Evaluate

-----------------------------------------------------------------------------
(* The parametric block interpreter: draft(..., block=...)                 *)

\* the inputs: the measurement, fit and option mappings
MInput == MapV([chest |-> IntV(100)])
FInput == MapV([ease |-> IntV(4)])
OInput == MapV([hem_allowance |-> IntV(20)])

\* env = {"M": M, "F": F, "O": O}
SeedEnv == [M |-> MInput, F |-> FInput, O |-> OInput]

\* env[k] = v
Bind(e, k, v) == [x \in DOMAIN e \cup {k} |-> IF x = k THEN v ELSE e[x]]

\* _coerce_expr(expr, env): float(eval_expr(s, env))
CoerceExpr(ex, e) == ToFloat(EvalExpr(ex, e))

\* A variant of EnvAfterPieceBind that the claims are tried against: penv
\* aliases env, so a piece parameter is bound in the shared dict as well.
EnvAliased(e, k, v) == Bind(e, k, v)

\* `penv = dict(env)` is a copy: binding a piece parameter k in penv leaves
\* the shared env as it is
EnvAfterPieceBind(e, k, v) == e

Decl(k, ex) == [name |-> k, ex |-> ex]

Cmd(type, exprs) == [type |-> type, expr |-> exprs]

PieceDecl(name, ps, paths, notches, grain) ==
    [name |-> name, params |-> ps, paths |-> paths, notches |-> notches, grain |-> grain]

NoPiece == PieceDecl("", <<>>, <<>>, <<>>, <<>>)

\* the path commands draft() copies to the output; any other type is skipped
KnownCmd(c) == c.type \in {"MOVE", "LINE", "CURVE", "ARC", "CLOSE"}

\* the coordinate expressions draft() evaluates for a command
CmdExprs(c) == IF c.type \in {"MOVE", "LINE", "CURVE"} THEN c.expr ELSE <<>>

\* round(_coerce_expr(e, penv), 3)
Coord(ex, e) == RoundTo(CoerceExpr(ex, e).q, 3)

OutCmd(c, e) == [type |-> c.type, data |-> [j \in 1..Len(CmdExprs(c)) |-> Coord(c.expr[j], e)]]

OutPaths(cs, e) == [j \in 1..Len(cs) |-> OutCmd(cs[j], e)]

OutNotches(ns, e) ==
    [j \in 1..Len(ns) |-> <<Coord(ns[j].x, e), Coord(ns[j].y, e), ns[j].label>>]

OutGrain(g, e) == [j \in 1..Len(g) |-> Coord(g[j], e)]

\* the dict appended to pieces_out
OutPiece(p, e) ==
    [name |-> p.name, paths |-> OutPaths(SelectSeq(p.paths, KnownCmd), e),
     notches |-> OutNotches(p.notches, e), drills |-> <<>>, grain |-> OutGrain(p.grain, e)]

\* some path, notch or grain expression of the piece raises
GeometryFails(p, e) ==
    \/ \E j \in 1..Len(p.paths) :
          \E n \in 1..Len(CmdExprs(p.paths[j])) : CoerceExpr(p.paths[j].expr[n], e) = Err
    \/ \E j \in 1..Len(p.notches) :
          CoerceExpr(p.notches[j].x, e) = Err \/ CoerceExpr(p.notches[j].y, e) = Err
    \/ \E j \in 1..Len(p.grain) : CoerceExpr(p.grain[j], e) = Err

NoOutput == [units |-> "none", pieces |-> <<>>]

Payload(ps) == [units |-> "mm", pieces |-> ps]

\* Bounds of the blocks tried
MaxParams == 2
MaxPieces == 2

C1e == Constant(IntV(1))

\* the top-level declarations tried: a reference to L, a read of M, a call of
\* a built-in function and a call with a keyword argument, bound to W, L, a
\* reserved name or the name of a built-in function
TopNames == {"W", "L", "M", "abs"}
TopExprs == { Name("L"), Attribute(Name("M"), "chest"),
              Call(Name("abs"), <<UnaryOp("USub", C1e)>>),
              CallKw(Name("round"), <<C1e>>, <<Keyword("ndigits", Name("L"))>>) }

\* the piece-local declarations tried
PieceNames == {"A", "O"}
PieceExprs == { Name("W"), BinOp("Add", Name("A"), C1e) }

DeclLists(names, exprs) ==
    { ds \in UNION { [1..n -> {Decl(k, ex) : k \in names, ex \in exprs}] : n \in 0..MaxParams } :
        \A a, b \in 1..Len(ds) : a # b => ds[a].name # ds[b].name }

Notch(x, y, label) == [x |-> x, y |-> y, label |-> label]

\* the path, notch and grain declarations tried
GeomA == [paths |-> << Cmd("MOVE", <<Name("A"), C1e>>), Cmd("LINE", <<C1e, Attribute(Name("O"), "hem_allowance")>>),
                       Cmd("CLOSE", <<>>) >>,
          notches |-> <<>>, grain |-> <<>>]
GeomB == [paths |-> << Cmd("CURVE", <<C1e, C1e, Name("W"), C1e, C1e, C1e>>), Cmd("ARC", <<>>),
                       Cmd("OTHER", <<Name("Z")>>) >>,
          notches |-> << Notch(Name("L"), C1e, "n") >>, grain |-> <<>>]
GeomC == [paths |-> <<>>, notches |-> <<>>,
          grain |-> << C1e, C1e, C1e, Attribute(Name("F"), "ease") >>]

PieceDecls ==
    { PieceDecl(n, ps, g.paths, g.notches, g.grain) :
        n \in {"front"}, ps \in DeclLists(PieceNames, PieceExprs), g \in {GeomA, GeomB, GeomC} }

DeclNames(ds) == { ds[j].name : j \in 1..Len(ds) }

DraftStart ==
    /\ blockParams \in DeclLists(TopNames, TopExprs)
    /\ env = SeedEnv
    /\ penv = SeedEnv
    /\ piece = NoPiece
    /\ pieces_out = <<>>
    /\ phase = "top"
    /\ next = 1
    /\ count = 0
    /\ locals = {}
    /\ written = NoOutput

DraftIdle ==
    /\ blockParams = <<>>
    /\ env = SeedEnv
    /\ penv = SeedEnv
    /\ piece = NoPiece
    /\ pieces_out = <<>>
    /\ phase = "idle"
    /\ next = 1
    /\ count = 0
    /\ locals = {}
    /\ written = NoOutput

\* A variant of Raise that the claims are tried against: the error is
\* swallowed and the interpreter goes on with the next piece.
RaiseSkips ==
    /\ phase' = "pieces"
    /\ UNCHANGED <<blockParams, env, penv, piece, pieces_out, next, count, locals, written>>

\* draft raised: nothing after the failing evaluation runs
Raise ==
    /\ phase' = "failed"
    /\ UNCHANGED <<blockParams, env, penv, piece, pieces_out, next, count, locals, written>>

\* one iteration of `for k, ex in block_data["params"].items()`
BindTop(k, v) ==
    IF v = Err THEN Raise
    ELSE /\ env' = Bind(env, k, v)
         /\ next' = next + 1
         /\ UNCHANGED <<blockParams, penv, piece, pieces_out, phase, count, locals, written>>

TopParam ==
    /\ phase = "top"
    /\ next <= Len(blockParams)
    /\ BindTop(blockParams[next].name, CoerceExpr(blockParams[next].ex, env))
    /\ UNCHANGED <<parseVars, evalVars, flatVars, outlVars>>

\* the top-level loop is over: pieces_out = []
TopDone ==
    /\ phase = "top"
    /\ next > Len(blockParams)
    /\ phase' = "pieces"
    /\ UNCHANGED <<blockParams, env, penv, piece, pieces_out, next, count, locals, written>>
    /\ UNCHANGED <<parseVars, evalVars, flatVars, outlVars>>

\* the next p of block_data["pieces"]: penv = dict(env)
PieceBegin(p) ==
    /\ phase = "pieces"
    /\ count < MaxPieces
    /\ piece' = p
    /\ penv' = env
    /\ next' = 1
    /\ count' = count + 1
    /\ phase' = "piece"
    /\ UNCHANGED <<blockParams, env, pieces_out, locals, written>>
    /\ UNCHANGED <<parseVars, evalVars, flatVars, outlVars>>

\* one iteration of `for k, ex in p["params"].items()`
BindPiece(k, v) ==
    IF v = Err THEN Raise
    ELSE /\ penv' = Bind(penv, k, v)
         /\ env' = EnvAfterPieceBind(env, k, v)
         /\ next' = next + 1
         /\ UNCHANGED <<blockParams, piece, pieces_out, phase, count, locals, written>>

PieceParam ==
    /\ phase = "piece"
    /\ next <= Len(piece.params)
    /\ BindPiece(piece.params[next].name, CoerceExpr(piece.params[next].ex, penv))
    /\ UNCHANGED <<parseVars, evalVars, flatVars, outlVars>>

\* what follows a piece whose geometry evaluated: pieces_out.append(...)
AppendPiece ==
    /\ pieces_out' = Append(pieces_out, OutPiece(piece, penv))
    /\ locals' = locals \cup DeclNames(piece.params)
    /\ phase' = "pieces"
    /\ piece' = NoPiece
    /\ UNCHANGED <<blockParams, env, penv, next, count, written>>

\* paths, notches and grain of the piece, then the append
PieceGeometry ==
    /\ phase = "piece"
    /\ next > Len(piece.params)
    /\ IF GeometryFails(piece, penv) THEN Raise ELSE AppendPiece
    /\ UNCHANGED <<parseVars, evalVars, flatVars, outlVars>>

\* out.write_text(json.dumps(payload)) after the last piece
WriteOut ==
    /\ phase = "pieces"
    /\ written' = Payload(pieces_out)
    /\ phase' = "written"
    /\ UNCHANGED <<blockParams, env, penv, piece, pieces_out, next, count, locals>>
    /\ UNCHANGED <<parseVars, evalVars, flatVars, outlVars>>

DraftNext ==
    \/ TopParam
    \/ TopDone
    \/ \E p \in PieceDecls : PieceBegin(p)
    \/ PieceParam
    \/ PieceGeometry
    \/ WriteOut
-----------------------------------------------------------------------------
(* The cubic Bezier flattener: flatten_cubic                               *)

\* Bound of the subdivision depth the loop is followed to
MaxDepth == 3

\* Coordinates are held exactly, as integer multiples of 1/Unit: a point of
\* the grid is a multiple of Unit, and each de Casteljau subdivision divides
\* by 8, so MaxDepth levels of subdivision are exact.  A tolerance is a
\* rational <<n, d>>.
Unit == 8 ^ MaxDepth

\* Bound of the control points tried: the integer grid 0..MaxCoord squared
MaxCoord == 2

SqDist(p, q) == (p[1] - q[1]) * (p[1] - q[1]) + (p[2] - q[2]) * (p[2] - q[2])

\* (x0-x1)*dx + (y0-y1)*dy
Dot(p, a, d) == (p[1] - a[1]) * (d[1] - a[1]) + (p[2] - a[2]) * (d[2] - a[2])

\* twice the area of the triangle a, d, p
Cross(p, a, d) == (p[1] - a[1]) * (d[2] - a[2]) - (p[2] - a[2]) * (d[1] - a[1])

\* a/b <= c/d for a, c >= 0 and b, d > 0, by continued fractions (the
\* products a*d and b*c would not fit the integers of the checker)
RECURSIVE LeqFrac(_, _, _, _)
LeqFrac(a, b, c, d) ==
    IF a \div b # c \div d THEN a \div b < c \div d
    ELSE IF a % b = 0 THEN TRUE
    ELSE IF c % d = 0 THEN FALSE
    ELSE LeqFrac(d, c % d, b, a % b)

\* sqrt(sq) <= t for a squared distance sq
SqWithin(sq, t) ==
    /\ t[1] >= 0
    /\ sq = 0 \/ (t[1] > 0 /\ LeqFrac(sq, t[1] * Unit, t[1] * Unit, t[2] * t[2]))

\* abs(cr) / sqrt(len2) <= t: the distance to the foot of the perpendicular
CrossWithin(cr, len2, t) ==
    /\ t[1] >= 0
    /\ cr = 0 \/ LeqFrac(cr * t[2], len2, (t[1] * Unit) * (t[1] * Unit), cr * t[2])

\* _dist_point_to_segment(p, a, d) <= t, with the projection clamped to [0, 1]
DistWithin(p, a, d, t) ==
    IF a = d THEN SqWithin(SqDist(p, a), t)
    ELSE IF Dot(p, a, d) <= 0 THEN SqWithin(SqDist(p, a), t)
    ELSE IF Dot(p, a, d) >= SqDist(a, d) THEN SqWithin(SqDist(p, d), t)
    ELSE CrossWithin(Abs(Cross(p, a, d)), SqDist(a, d), t)

\* 1 / t for a tolerance t > 0, t itself otherwise
Inverse(t) == IF t[1] > 0 THEN <<t[2], t[1]>> ELSE t

\* A variant of ChordErrWithin that the claims are tried against: the
\* tolerance is taken as a density, the test is chord_err <= 1 / tol.
ChordErrWithinInverse(s, t) ==
    DistWithin(s[2], s[1], s[4], Inverse(t)) /\ DistWithin(s[3], s[1], s[4], Inverse(t))

\* chord_err <= tol, chord_err the larger distance of b and c to segment a-d
ChordErrWithin(s, t) == DistWithin(s[2], s[1], s[4], t) /\ DistWithin(s[3], s[1], s[4], t)

\* de Casteljau subdivision
Mid(u, v) == <<(u[1] + v[1]) \div 2, (u[2] + v[2]) \div 2>>
AB(s)   == Mid(s[1], s[2])
BC(s)   == Mid(s[2], s[3])
CD(s)   == Mid(s[3], s[4])
ABC(s)  == Mid(AB(s), BC(s))
BCD(s)  == Mid(BC(s), CD(s))
ABCD(s) == Mid(ABC(s), BCD(s))
LeftHalf(s)  == <<s[1], AB(s), ABC(s), ABCD(s)>>
RightHalf(s) == <<ABCD(s), BCD(s), CD(s), s[4]>>

\* A variant of PushHalves that the claims are tried against: the left half
\* is pushed first, so the right half is popped first.
PushHalvesLeftFirst(stack, s) == Append(Append(stack, LeftHalf(s)), RightHalf(s))

\* stack.append((abcd,bcd,cd,d)); stack.append((a,ab,abc,abcd))
PushHalves(stack, s) == Append(Append(stack, RightHalf(s)), LeftHalf(s))

\* the midpoints of s are exact in the units of the model
Halvable(s) == \A j \in 1..4 : s[j][1] % 8 = 0 /\ s[j][2] % 8 = 0

\* Bound of the iterations of the while loop that are followed
MaxIter == 10

\* what the model gives for a call whose loop is still subdividing after
\* MaxIter iterations or below MaxDepth: flatten_cubic has not returned
NotReturned == <<>>

\* the while loop, n iterations left to follow: stack.pop() takes the last
\* element
RECURSIVE Loop(_, _, _, _)
LoopBody(s, rest, o, t, n) ==
    IF ChordErrWithin(s, t) THEN Loop(rest, Append(o, s[4]), t, n - 1)
    ELSE IF Halvable(s) THEN Loop(PushHalves(rest, s), o, t, n - 1)
    ELSE NotReturned

Loop(stack, o, t, n) ==
    IF stack = <<>> THEN o
    ELSE IF n = 0 THEN NotReturned
    ELSE LoopBody(stack[Len(stack)], SubSeq(stack, 1, Len(stack) - 1), o, t, n)

\* flatten_cubic(p0, p1, p2, p3, tol) for c = <<p0, p1, p2, p3>>
FlattenCubic(c, t) == Loop(<<c>>, <<c[1]>>, t, MaxIter)

GridPoints == { <<x * Unit, y * Unit>> : x \in 0..MaxCoord, y \in 0..MaxCoord }

\* the curves tried start in a corner or inside the grid
StartPoints == { <<0, 0>>, <<Unit, Unit>> }

Curves == StartPoints \X GridPoints \X GridPoints \X GridPoints

\* the tolerances tried: zero, a negative one, and positive ones (the
\* distances of the curves tried keep clear of these by more than the
\* rounding of a double)
Tols == { <<-1, 2>>, <<0, 1>>, <<1, 2>>, <<1, 1>>, <<2, 1>> }

\* "done" when the call returned, "running" when it has not
After(res) == IF res = NotReturned THEN "running" ELSE "done"

FlatStart ==
    /\ curve \in Curves
    /\ tol \in Tols
    /\ out = <<>>
    /\ coarse = <<>>
    /\ fpc = "ready"

FlatIdle ==
    /\ curve = <<>>
    /\ tol = <<1, 1>>
    /\ out = <<>>
    /\ coarse = <<>>
    /\ fpc = "idle"

\* pts = flatten_cubic(p0, p1, p2, p3, tol=tol)
Flatten ==
    /\ fpc = "ready"
    /\ out' = FlattenCubic(curve, tol)
    /\ fpc' = After(out')
    /\ UNCHANGED <<curve, tol, coarse>>
    /\ UNCHANGED <<parseVars, evalVars, draftVars, outlVars>>

\* flatten_cubic called again on the same curve with a tolerance t no larger
\* than the one before; `coarse` keeps the earlier result
Refine(t) ==
    /\ fpc = "done"
    /\ ~RLess(tol, t)
    /\ coarse' = out
    /\ tol' = t
    /\ out' = FlattenCubic(curve, t)
    /\ fpc' = IF out' = NotReturned THEN "running" ELSE "refined"
    /\ UNCHANGED curve
    /\ UNCHANGED <<parseVars, evalVars, draftVars, outlVars>>

FlatNext == Flatten \/ \E t \in Tols : Refine(t)

-----------------------------------------------------------------------------
(* The outline builder piece_paths_to_polyline and the vertex list of the  *)
(* DXF exporter                                                            *)

\* a path command of a piece dict; pts is <<to>> for MOVE and LINE,
\* <<cp1, cp2, to>> for CURVE and <<>> otherwise
PCmd(type, pts) == [type |-> type, data |-> pts]

\* pen = None
NoPen == <<>>

\* the locals verts, pen and closed of the loop over the commands
Walked(vs, pen, closed) == [verts |-> vs, pen |-> pen, closed |-> closed]

\* pts[1:]
Rest1(pts) == SubSeq(pts, 2, Len(pts))

\* a builder that closes the outline where the CLOSE command stands instead
\* of after the loop
PolyStepCloseNow(st, c, t) ==
    IF c.type \in {"MOVE", "LINE"} THEN Walked(Append(st.verts, c.data[1]), c.data[1], st.closed)
    ELSE IF c.type = "CURVE" /\ st.pen # NoPen THEN
        Walked(st.verts \o Rest1(FlattenCubic(<<st.pen, c.data[1], c.data[2], c.data[3]>>, t)),
               c.data[3], st.closed)
    ELSE IF c.type = "CLOSE" /\ st.verts # <<>> THEN Walked(Append(st.verts, st.verts[1]), st.pen, FALSE)
    ELSE st

\* one iteration of `for cmd in piece.get("paths", [])`; a CURVE before any
\* MOVE or LINE is skipped, ARC is ignored
PolyStep(st, c, t) ==
    IF c.type \in {"MOVE", "LINE"} THEN Walked(Append(st.verts, c.data[1]), c.data[1], st.closed)
    ELSE IF c.type = "CURVE" /\ st.pen # NoPen THEN
        Walked(st.verts \o Rest1(FlattenCubic(<<st.pen, c.data[1], c.data[2], c.data[3]>>, t)),
               c.data[3], st.closed)
    ELSE IF c.type = "CLOSE" THEN Walked(st.verts, st.pen, TRUE)
    ELSE st

RECURSIVE PolyWalk(_, _, _, _)
PolyWalk(cmds, i, st, t) ==
    IF i > Len(cmds) THEN st ELSE PolyWalk(cmds, i + 1, PolyStep(st, cmds[i], t), t)

\* if closed and verts and verts[0] != verts[-1]: verts.append(verts[0])
CloseIfDeclared(st) ==
    IF st.closed /\ st.verts # <<>> /\ st.verts[1] # st.verts[Len(st.verts)]
    THEN Append(st.verts, st.verts[1]) ELSE st.verts

\* piece_paths_to_polyline(piece, tol) for piece["paths"] = cmds
PiecePathsToPolyline(cmds, t) == CloseIfDeclared(PolyWalk(cmds, 1, Walked(<<>>, NoPen, FALSE), t))

\* dist(p, s, e) <= tol of the exporter's flatten_cubic: the distance to the
\* line through s and e, num / (hypot(...) or 1.0); num is 0 when s = e
DxfDistWithin(p, a, d, t) ==
    IF a = d THEN t[1] >= 0 ELSE CrossWithin(Abs(Cross(p, a, d)), SqDist(a, d), t)

\* chord_tol <= tol
DxfChordWithin(s, t) == DxfDistWithin(s[2], s[1], s[4], t) /\ DxfDistWithin(s[3], s[1], s[4], t)

\* the while loop of the exporter's flatten_cubic, n iterations left to follow
RECURSIVE DxfLoop(_, _, _, _)
DxfLoopBody(s, rest, o, t, n) ==
    IF DxfChordWithin(s, t) THEN DxfLoop(rest, Append(o, s[4]), t, n - 1)
    ELSE IF Halvable(s) THEN DxfLoop(PushHalves(rest, s), o, t, n - 1)
    ELSE NotReturned

DxfLoop(stack, o, t, n) ==
    IF stack = <<>> THEN o
    ELSE IF n = 0 THEN NotReturned
    ELSE DxfLoopBody(stack[Len(stack)], SubSeq(stack, 1, Len(stack) - 1), o, t, n)

\* dxf_exporter.flatten_cubic(p0, p1, p2, p3, tol)
DxfFlattenCubic(c, t) == DxfLoop(<<c>>, <<c[1]>>, t, MaxIter)

\* one iteration of the loop over the commands in export_dxf, splines off
DxfStep(st, c, t) ==
    IF c.type \in {"MOVE", "LINE"} THEN Walked(Append(st.verts, c.data[1]), c.data[1], st.closed)
    ELSE IF c.type = "CURVE" /\ st.pen # NoPen THEN
        Walked(st.verts \o Rest1(DxfFlattenCubic(<<st.pen, c.data[1], c.data[2], c.data[3]>>, t)),
               c.data[3], st.closed)
    ELSE IF c.type = "CLOSE" THEN Walked(st.verts, st.pen, TRUE)
    ELSE st

RECURSIVE DxfWalk(_, _, _, _)
DxfWalk(cmds, i, st, t) ==
    IF i > Len(cmds) THEN st ELSE DxfWalk(cmds, i + 1, DxfStep(st, cmds[i], t), t)

\* the vertex list export_dxf hands to add_poly for the cut outline
DxfVerts(cmds, t) == CloseIfDeclared(DxfWalk(cmds, 1, Walked(<<>>, NoPen, FALSE), t))

-----------------------------------------------------------------------------
(* The offset engine offset_piece and the construct step                   *)

SCALE == 1000

\* the literal tol=0.2 of the call of piece_paths_to_polyline
DefaultTol == <<1, 5>>

\* int(round(x * SCALE)) for a coordinate of x / Unit
ScaleCoord(x) == RoundInt(Rat(x * SCALE, Unit))

ScalePath(path) == [i \in 1..Len(path) |-> <<ScaleCoord(path[i][1]), ScaleCoord(path[i][2])>>]

\* (x / SCALE, y / SCALE), exact
UnscalePath(path) == [i \in 1..Len(path) |-> <<Rat(path[i][1], SCALE), Rat(path[i][2], SCALE)>>]

\* if base[0] != base[-1]: base = base + [base[0]], whatever the commands were
CloseBase(b) == IF b[1] # b[Len(b)] THEN Append(b, b[1]) ELSE b

\* twice the signed area of an integer path (pyclipper.Area, by the shoelace sum)
RECURSIVE Shoelace(_, _)
Shoelace(p, i) ==
    IF i > Len(p) THEN 0
    ELSE p[i][1] * p[(i % Len(p)) + 1][2] - p[(i % Len(p)) + 1][1] * p[i][2] + Shoelace(p, i + 1)

\* max(solution, key=lambda p: abs(pyclipper.Area(p))): the first of the largest
RECURSIVE Largest(_, _, _)
Largest(sol, i, best) ==
    IF i > Len(sol) THEN best
    ELSE IF Abs(Shoelace(sol[i], 1)) > Abs(Shoelace(best, 1)) THEN Largest(sol, i + 1, sol[i])
    ELSE Largest(sol, i + 1, best)

\* if out and out[0] != out[-1]: out.append(out[0])
CloseOut(o) == IF o # <<>> /\ o[1] # o[Len(o)] THEN Append(o, o[1]) ELSE o

\* the polygon-offset primitive was not reached
NotInvoked == <<>>

\* what co.AddPaths and co.Execute received
Invoked(subj, delta) == <<[subj |-> subj, delta |-> delta]>>

\* the return value of offset_piece once co.Execute returned sol
OffsetReturn(sol) ==
    IF sol = <<>> THEN <<>> ELSE CloseOut(UnscalePath(Largest(sol, 2, sol[1])))

\* offset_piece from the polyline `base` on: the guard on len(base) counts the
\* entries of the list
OffsetFrom(b, delta, sol) ==
    IF Len(b) < 3 THEN [prim |-> NotInvoked, ret |-> <<>>]
    ELSE [prim |-> Invoked(<<ScalePath(CloseBase(b))>>, delta * SCALE), ret |-> OffsetReturn(sol)]

\* offset_piece(piece, delta_mm), the primitive answering sol
OffsetPieceOf(p, delta, sol) == OffsetFrom(PiecePathsToPolyline(p.paths, DefaultTol), delta, sol)

\* the key "sa_paths" is absent
NoSa == <<"absent">>

\* cmds: MOVE to sa_poly[0], LINE to each of sa_poly[1:]
SaCmds(poly) == [i \in 1..Len(poly) |-> PCmd(IF i = 1 THEN "MOVE" ELSE "LINE", <<poly[i]>>)]

\* the body of `for p in data.get("pieces", [])` of construct; the variant
\* that writes the outline over p["paths"] stands for an in-place update
AttachOverPaths(p, ret) == IF ret # <<>> THEN [p EXCEPT !.paths = SaCmds(ret)] ELSE p

Attach(p, ret) == IF ret # <<>> THEN [p EXCEPT !.sa_paths = SaCmds(ret)] ELSE p

-----------------------------------------------------------------------------
(* Pieces handed to the outline builder, the exporter, the offset engine   *)
(* and the construct step                                                  *)

MaxCmds == 3

Far == MaxCoord * Unit

\* the path commands the pieces are made of: straight edges, a bulging
\* curve, a curve that returns to the origin (a loop when the pen is there),
\* a curve along the x axis whose first control point lies beyond its end,
\* CLOSE and ARC; from every pen position each curve is flattened within
\* MaxIter iterations and MaxDepth halvings for every tolerance used here
Cmds ==
    { PCmd("MOVE", << <<0, 0>> >>),
      PCmd("LINE", << <<Far, 0>> >>),
      PCmd("LINE", << <<0, Far>> >>),
      PCmd("CURVE", << <<Far, Far>>, <<Far, Far>>, <<0, Far>> >>),
      PCmd("CURVE", << <<Far, 0>>, <<0, Far>>, <<0, 0>> >>),
      PCmd("CURVE", << <<Far, 0>>, <<0, 0>>, <<Unit, 0>> >>),
      PCmd("CLOSE", <<>>),
      PCmd("ARC", <<>>) }

CmdSeqs == UNION { [1..n -> Cmds] : n \in 0..MaxCmds }

\* a piece of the base JSON; sa_paths is NoSa while the key is absent
PieceDict(cmds) ==
    [paths |-> cmds, notches |-> << <<Unit, 0, "N1">> >>, drills |-> << <<0, Unit, "D1">> >>,
     grain |-> 0, sa_paths |-> NoSa]

\* tolerances handed to the builder and the exporter
PolyTols == { <<1, 2>>, <<1, 1>> }

\* delta_mm, and the seam_allowance option of construct
Deltas == { 0, 10 }

\* what co.Execute may answer: nothing, one polygon, or several in any order
Tri == << <<0, 0>>, <<1000, 0>>, <<0, 1000>> >>

Quad == << <<-500, -500>>, <<1500, -500>>, <<1500, 1500>>, <<-500, 1500>> >>

Solutions == { <<>>, <<Tri>>, <<Tri, Quad>>, <<Quad, Tri>> }

NotBuilt == <<"pending">>

OutlStart ==
    /\ pdict \in { PieceDict(cmds) : cmds \in CmdSeqs }
    /\ ptol \in PolyTols
    /\ verts = NotBuilt
    /\ dverts = NotBuilt
    /\ prim = NotInvoked
    /\ sa_poly = NotBuilt
    /\ ppc = "ready"

OutlIdle ==
    /\ pdict = PieceDict(<<>>)
    /\ ptol = <<1, 1>>
    /\ verts = NotBuilt
    /\ dverts = NotBuilt
    /\ prim = NotInvoked
    /\ sa_poly = NotBuilt
    /\ ppc = "idle"

\* verts = piece_paths_to_polyline(piece, tol)
Polyline ==
    /\ ppc = "ready"
    /\ verts' = PiecePathsToPolyline(pdict.paths, ptol)
    /\ ppc' = "built"
    /\ UNCHANGED <<pdict, ptol, dverts, prim, sa_poly>>
    /\ UNCHANGED <<parseVars, evalVars, draftVars, flatVars>>

\* the cut outline of export_dxf(data, ..., flatten_tol=tol, splines=False)
\* for the same piece
ExportDxf ==
    /\ ppc = "built"
    /\ dverts' = DxfVerts(pdict.paths, ptol)
    /\ ppc' = "exported"
    /\ UNCHANGED <<pdict, ptol, verts, prim, sa_poly>>
    /\ UNCHANGED <<parseVars, evalVars, draftVars, flatVars>>

\* sa_poly = offset_piece(piece, delta)
OffsetPiece(delta, sol) ==
    /\ ppc = "ready"
    /\ \E r \in {OffsetPieceOf(pdict, delta, sol)} : prim' = r.prim /\ sa_poly' = r.ret
    /\ ppc' = "offset"
    /\ UNCHANGED <<pdict, ptol, verts, dverts>>
    /\ UNCHANGED <<parseVars, evalVars, draftVars, flatVars>>

\* construct on a base JSON holding the piece, seam_allowance: sa_mm
Construct(sa_mm, sol) ==
    /\ ppc = "ready"
    /\ IF sa_mm > 0
       THEN \E r \in {OffsetPieceOf(pdict, sa_mm, sol)} :
                /\ prim' = r.prim
                /\ sa_poly' = r.ret
                /\ pdict' = Attach(pdict, r.ret)
       ELSE UNCHANGED <<pdict, prim, sa_poly>>
    /\ ppc' = "constructed"
    /\ UNCHANGED <<ptol, verts, dverts>>
    /\ UNCHANGED <<parseVars, evalVars, draftVars, flatVars>>

OutlNext ==
    \/ Polyline
    \/ ExportDxf
    \/ \E d \in Deltas, sol \in Solutions : OffsetPiece(d, sol)
    \/ \E d \in Deltas, sol \in Solutions : Construct(d, sol)

-----------------------------------------------------------------------------
(* Specifications, one per component                                       *)

ParseInit == ParseStart /\ EvalIdle /\ DraftIdle /\ FlatIdle /\ OutlIdle

SpecParse == ParseInit /\ [][ParseNext]_vars

EvalInit == EvalStart /\ ParseIdle /\ DraftIdle /\ FlatIdle /\ OutlIdle

SpecEval == EvalInit /\ [][EvalNext]_vars

DraftInit == DraftStart /\ ParseIdle /\ EvalIdle /\ FlatIdle /\ OutlIdle

SpecDraft == DraftInit /\ [][DraftNext]_vars

FlatInit == FlatStart /\ ParseIdle /\ EvalIdle /\ DraftIdle /\ OutlIdle

SpecFlatten == FlatInit /\ [][FlatNext]_vars

OutlInit == OutlStart /\ ParseIdle /\ EvalIdle /\ DraftIdle /\ FlatIdle

SpecOutline == OutlInit /\ [][OutlNext]_vars

-----------------------------------------------------------------------------
(* Claims about the DSL parser, stated on the input text alone             *)

IsPieceLine(raw) == StartsWith(Strip(raw), KwPIECE)

IsEndLine(raw) == Strip(raw) = KwEND

\* a non-blank, non-comment line other than a PIECE line
IsCommandLine(raw) == ~IsBlankOrComment(Strip(raw)) /\ ~IsPieceLine(raw)

\* a piece is open when line i of t is read: a PIECE line precedes it with no
\* END line in between
OpenAt(t, i) ==
    \E j \in 1..(i - 1) :
        IsPieceLine(t[j]) /\ \A k \in (j + 1)..(i - 1) : ~IsEndLine(t[k])

\* C1: parse fails whenever a command line (a non-blank, non-comment line
\* other than a PIECE line) occurs while no piece is open: parse never
\* returns a piece list for a text that holds such a line.
C1_CommandOutsideBlockFails ==
    status = "returned" =>
        \A i \in 1..Len(text) : IsCommandLine(text[i]) => OpenAt(text, i)

\* C2: every PIECE line must be matched by a later END before the text ends
\* or another PIECE line occurs: parse returns only when each PIECE line is
\* followed by an END line with no PIECE line in between.
C2_PieceMatchedByEnd ==
    status = "returned" =>
        \A i \in 1..Len(text) :
            IsPieceLine(text[i]) =>
                \E j \in (i + 1)..Len(text) :
                    IsEndLine(text[j]) /\ \A k \in (i + 1)..(j - 1) : ~IsPieceLine(text[k])

\* the lines of DslLines that are a recognized command in its stated form
\* (CLOSE takes no arguments; NOTCH and DRILL carry a quoted label)
RecognizedLines ==
    { LnEnd, LnEndPad, LnMove, LnLine, LnCurve, LnArc, LnClose, LnNotch, LnGrain, LnSA }

\* C3: inside a PIECE block every non-empty, non-comment line that is not a
\* recognized command makes parse fail, keyword look-alikes included: parse
\* never returns a piece list for a text that holds such a line in a block.
C3_UnknownLineInBlockFails ==
    status = "returned" =>
        \A i \in 1..Len(text) :
            (OpenAt(text, i) /\ IsCommandLine(text[i])) => text[i] \in RecognizedLines

-----------------------------------------------------------------------------
(* Claims about the expression evaluator                                   *)

RECURSIVE HasNonNumericConstant(_)
HasNonNumericConstant(node) ==
    CASE node.k = "Constant"  -> node.value.t \notin {"int", "float"}
      [] node.k = "BinOp"     -> HasNonNumericConstant(node.left) \/ HasNonNumericConstant(node.right)
      [] node.k = "UnaryOp"   -> HasNonNumericConstant(node.operand)
      [] node.k = "Call"      ->
            \/ HasNonNumericConstant(node.func)
            \/ \E i \in 1..Len(node.args) : HasNonNumericConstant(node.args[i])
      [] node.k = "Attribute" -> HasNonNumericConstant(node.value)
      [] OTHER                -> FALSE

\* C4: evaluate fails closed on non-numeric constants: an expression that
\* contains a string literal, a boolean, None or another non-numeric
\* constant never evaluates to a number; eval_expr raises.
C4_NonNumericConstantFails ==
    (result # Pending /\ HasNonNumericConstant(expr)) => result = Err

-----------------------------------------------------------------------------
(* Claims about the parametric block interpreter                           *)

\* the evaluation the next step of draft performs raises
StepRaises ==
    \/ phase = "top" /\ next <= Len(blockParams)
          /\ CoerceExpr(blockParams[next].ex, env) = Err
    \/ phase = "piece" /\ next <= Len(piece.params)
          /\ CoerceExpr(piece.params[next].ex, penv) = Err
    \/ phase = "piece" /\ next > Len(piece.params) /\ GeometryFails(piece, penv)

C5_Step ==
    /\ StepRaises => phase' = "failed"
    /\ phase = "failed" => phase' = "failed"
    /\ phase' = "failed" => written' = NoOutput
    /\ written' # NoOutput => Len(written'.pieces) = count'

\* C5: interpreting a block is all-or-nothing. A step whose evaluation (of a
\* top-level param, a piece param, or a path, notch or grain coordinate) fails
\* ends the interpretation as failed; a failed interpretation stays failed and
\* has written nothing, not even the pieces completed before; and whatever is
\* written holds every piece taken from the block.
C5_AllOrNothing == [][C5_Step]_vars

\* C5 witness: the interpretation failed in a second piece, after a first
\* piece was completed, and nothing was written.
C5_Witness ==
    phase = "failed" /\ count = 2 /\ Len(pieces_out) = 1 /\ written = NoOutput

Reserved == {"M", "F", "O"}

\* the names the top level of the block binds or is seeded with
TopLevelNames == Reserved \cup DeclNames(blockParams)

\* the names piece p has declared before its declaration number n
DeclaredBefore(ds, n) == { ds[j].name : j \in 1..(n - 1) }

C6_Step ==
    /\ phase = "piece" => env' = env
    /\ phase' \in {"piece", "failed"} =>
          \A n \in locals' :
              (n \notin TopLevelNames' /\ n \notin DeclaredBefore(piece'.params, next'))
                  => (n \notin DOMAIN penv' /\ CoerceExpr(Name(n), penv') = Err)

\* C6: piece-local parameters never leak. While a piece is interpreted the
\* shared top-level environment does not change, and a name that only earlier
\* pieces declared (not the top level, not this piece so far) is unbound in
\* this piece's environment: reading it fails.
C6_PieceParamsDoNotLeak == [][C6_Step]_vars

\* C6 witness: the first piece declared A, the second piece did not, and the
\* second piece's MOVE A,1 failed because A is unbound.
C6_Witness ==
    /\ phase = "failed" /\ count = 2
    /\ "A" \in locals /\ "A" \notin DOMAIN penv
    /\ piece.params = <<>> /\ piece.paths = GeomA.paths

\* the names an expression references
RECURSIVE NamesOf(_)
NamesOf(node) ==
    CASE node.k = "Name"      -> {node.id}
      [] node.k = "BinOp"     -> NamesOf(node.left) \cup NamesOf(node.right)
      [] node.k = "UnaryOp"   -> NamesOf(node.operand)
      [] node.k = "Attribute" -> NamesOf(node.value)
      [] node.k = "Call"      ->
            NamesOf(node.func)
            \cup UNION { NamesOf(node.args[j]) : j \in 1..Len(node.args) }
            \cup UNION { NamesOf(node.keywords[j].value) : j \in 1..Len(node.keywords) }
      [] OTHER                -> {}

\* declaration n of ds references a name that ds declares only after it and
\* that is not visible from outside the list
ReadsLater(ds, n, visible) ==
    \E x \in NamesOf(ds[n].ex) :
        /\ \E j \in (n + 1)..Len(ds) : ds[j].name = x
        /\ x \notin DeclaredBefore(ds, n) \cup visible

C7_Step ==
    /\ (phase = "top" /\ next <= Len(blockParams)) =>
          /\ Reserved \cup DeclaredBefore(blockParams, next) \subseteq DOMAIN env
          /\ ReadsLater(blockParams, next, Reserved) => phase' = "failed"
    /\ (phase = "piece" /\ next <= Len(piece.params)) =>
          /\ TopLevelNames \cup DeclaredBefore(piece.params, next) \subseteq DOMAIN penv
          /\ ReadsLater(piece.params, next, TopLevelNames) => phase' = "failed"

\* C7: parameters are evaluated in declaration order into a growing
\* environment. When a parameter is evaluated, M, F, O and every parameter
\* declared earlier (the top-level ones too, for a piece parameter) are bound,
\* and if its expression references a name declared only later in the list the
\* evaluation fails.
C7_DeclarationOrder == [][C7_Step]_vars

\* C8: M, F and O cannot be rebound. In every environment reached, M, F and O
\* map to the mappings given as input, and a block whose top level declares a
\* parameter named M, F or O is not interpreted to the end.
C8_ReservedNamesKept ==
    /\ \A n \in Reserved : env[n] = SeedEnv[n] /\ penv[n] = SeedEnv[n]
    /\ phase = "written" => DeclNames(blockParams) \cap Reserved = {}

-----------------------------------------------------------------------------
(* Claims about the flattener                                              *)

\* the end points of the flat pieces of segment s in curve order: those of
\* the left half before those of the right half
RECURSIVE InCurveOrder(_, _)
InCurveOrder(s, t) ==
    IF ChordErrWithin(s, t) THEN <<s[4]>>
    ELSE InCurveOrder(LeftHalf(s), t) \o InCurveOrder(RightHalf(s), t)

\* C9: for every cubic and every tolerance > 0, flatten_cubic returns a
\* non-empty sequence that starts with p0 and ends with p3, and whose points
\* are in curve order: p0 followed by the end points of the flat pieces, the
\* left half's before the right half's.
C9_EndpointsAndOrder ==
    fpc \in {"done", "refined"} =>
        /\ Len(out) >= 1
        /\ out[1] = curve[1]
        /\ out[Len(out)] = curve[4]
        /\ out = <<curve[1]>> \o InCurveOrder(curve, tol)

\* C9 witness: a curve that was subdivided twice, with distinct points
\* in between.
C9_Witness ==
    fpc = "done" /\ Len(out) >= 5 /\ out[2] # out[3] /\ out[3] # out[4]

\* C10: monotone refinement. Flattening the same curve again with a
\* tolerance no larger than before returns at least as many points.
C10_MonotoneRefinement ==
    fpc = "refined" => Len(out) >= Len(coarse)

\* C10 witness: a curve already subdivided for the larger tolerance gets
\* more points for the smaller one.
C10_Witness ==
    fpc = "refined" /\ Len(coarse) >= 3 /\ Len(out) > Len(coarse)

\* tol <= 0
NonPositive(t) == t[1] <= 0

\* C11: flatten rejects a zero or negative tolerance as a configuration
\* error before subdividing anything: a call with tol <= 0 neither returns
\* a polyline nor runs the subdivision loop.
C11_NonPositiveTolRejected ==
    (fpc # "ready" /\ NonPositive(tol)) => fpc = "rejected"

\* the four points of c lie on one line
Collinear(c) ==
    \A i, j, k \in 1..4 : Cross(c[i], c[j], c[k]) = 0

\* C15: for a cubic whose four points are collinear, wherever the control
\* points lie on the line, and any tolerance > 0, flatten_cubic accepts the
\* first chord and returns exactly [p0, p3].
C15_CollinearNotSubdivided ==
    (fpc # "ready" /\ ~NonPositive(tol) /\ Collinear(curve)) => out = <<curve[1], curve[4]>>

-----------------------------------------------------------------------------
(* Claims about the outline builder, the offset engine, the construct step *)
(* and the DXF exporter                                                    *)

\* the polyline offset_piece works on
Base == PiecePathsToPolyline(pdict.paths, DefaultTol)

DistinctPoints(b) == { b[i] : i \in 1..Len(b) }

HasClose(cmds) == \E i \in 1..Len(cmds) : cmds[i].type = "CLOSE"

\* C12: offset_piece returns the empty sequence without invoking the
\* polygon-offset primitive for every piece whose flattened outline has
\* fewer than 3 distinct vertices, counting points and not list entries.
C12_FewDistinctVerticesRejected ==
    (ppc = "offset" /\ Cardinality(DistinctPoints(Base)) < 3) =>
        (prim = NotInvoked /\ sa_poly = <<>>)

\* C13: for every command sequence that contains a CLOSE and yields at
\* least one vertex, the polyline piece_paths_to_polyline builds has its
\* first point equal to its last point, wherever the CLOSE stands.
C13_ClosedOutlineStartsWhereItEnds ==
    (ppc \in {"built", "exported"} /\ HasClose(pdict.paths) /\ verts # <<>>) =>
        verts[1] = verts[Len(verts)]

\* C13 witness: a CLOSE followed by a command that adds vertices, in a
\* polyline that leaves its first point and is brought back to it.
C13_Witness ==
    /\ ppc = "built"
    /\ \E i \in 1..(Len(pdict.paths) - 1) :
          pdict.paths[i].type = "CLOSE" /\ pdict.paths[i + 1].type \in {"LINE", "CURVE"}
    /\ Len(verts) >= 3
    /\ verts[Len(verts) - 1] # verts[1]
    /\ verts[Len(verts)] = verts[1]

\* C14: offset_piece and the construct step leave the piece's paths,
\* notches, drills and grain as they were; offset_piece changes nothing of
\* the piece and construct changes at most its sa_paths.
C14_Step ==
    (ppc = "ready" /\ ppc' \in {"offset", "constructed"}) =>
        /\ pdict'.paths = pdict.paths
        /\ pdict'.notches = pdict.notches
        /\ pdict'.drills = pdict.drills
        /\ pdict'.grain = pdict.grain
        /\ pdict' = [pdict EXCEPT !.sa_paths = pdict'.sa_paths]
        /\ ppc' = "offset" => pdict' = pdict

C14_BaseOutlineUntouched == [][C14_Step]_vars

\* C14 witness: construct attached a seam-allowance outline to a piece that
\* has an outline of its own.
C14_Witness ==
    /\ ppc = "constructed"
    /\ pdict.sa_paths # NoSa
    /\ Len(pdict.paths) >= 3
    /\ prim # NotInvoked

\* C16: for a piece whose path has no CLOSE command, the polyline handed
\* to the offset primitive is the open polyline as built, with no closing
\* vertex added.
C16_OpenOutlineStaysOpen ==
    (ppc = "offset" /\ prim # NotInvoked /\ ~HasClose(pdict.paths)) =>
        prim[1].subj = <<ScalePath(Base)>>

\* C17: for every command sequence and every tolerance > 0, the vertex
\* list the DXF exporter builds for the cut outline equals the one
\* piece_paths_to_polyline builds.
C17_ExporterMatchesBuilder == ppc = "exported" => dverts = verts

====
